---- MODULE Spec2Model ----
(***************************************************************************)
(* Model of socketcan/src/frame.rs: the classic CAN 2.0 frame (CanFrame),  *)
(* the CAN FD frame (CanFdFrame), the identifier-word packing and the      *)
(* conversions between the two kinds.                                      *)
(*                                                                         *)
(* A behaviour is the life of one frame value: a constructor builds it,    *)
(* then the conversions and the flag setters act on it.                    *)
(***************************************************************************)
EXTENDS Integers, Sequences, FiniteSets, TLC

(***************************************************************************)
(* u32 arithmetic.  TLC's integers are 32-bit signed, so a u32 (canid_t)   *)
(* is kept as two 16-bit limbs, hi = bits 31..16 and lo = bits 15..0.      *)
(***************************************************************************)
RECURSIVE BitAnd(_, _)
BitAnd(x, y) ==
    IF x = 0 \/ y = 0 THEN 0
    ELSE (x % 2) * (y % 2) + 2 * BitAnd(x \div 2, y \div 2)

RECURSIVE BitOr(_, _)
BitOr(x, y) ==
    IF x = 0 THEN y
    ELSE IF y = 0 THEN x
    ELSE (IF x % 2 = 1 \/ y % 2 = 1 THEN 1 ELSE 0) + 2 * BitOr(x \div 2, y \div 2)

\* !x on a u8
BitNot8(x) == 255 - x

W(hi, lo) == [hi |-> hi, lo |-> lo]

WAnd(a, b) == W(BitAnd(a.hi, b.hi), BitAnd(a.lo, b.lo))

WOr(a, b) == W(BitOr(a.hi, b.hi), BitOr(a.lo, b.lo))

\* unsigned a > b
WGt(a, b) == a.hi > b.hi \/ (a.hi = b.hi /\ a.lo > b.lo)

WZero == W(0, 0)

(***************************************************************************)
(* Constants of frame.rs                                                   *)
(***************************************************************************)
\* 0x80000000
EFF_FLAG == W(32768, 0)

\* 0x40000000
RTR_FLAG == W(16384, 0)

\* 0x20000000
ERR_FLAG == W(8192, 0)

\* 0x000007ff
SFF_MASK == W(0, 2047)

\* 0x1fffffff
EFF_MASK == W(8191, 65535)

CAN_DATA_LEN_MAX == 8

CANFD_DATA_LEN_MAX == 64

CANFD_BRS == 1

CANFD_ESI == 2

(***************************************************************************)
(* Bounds of the inputs                                                    *)
(***************************************************************************)
\* payloads handed to the constructors have 0..MaxPayload bytes
MaxPayload == 65

\* lengths requested from new_remote are 0..MaxDlc
MaxDlc == 10

(***************************************************************************)
(* Results: Result<T, ConstructionError>, Option<T>, and a panic.          *)
(***************************************************************************)
NoFrame == [none |-> TRUE]

Ok(v) == [tag |-> "Ok", val |-> v, err |-> ""]

Err(e) == [tag |-> "Err", val |-> NoFrame, err |-> e]

Some(v) == [tag |-> "Some", val |-> v, err |-> ""]

None == [tag |-> "None", val |-> NoFrame, err |-> ""]

Panic == [tag |-> "Panic", val |-> NoFrame, err |-> ""]

\* Result::ok()
ResultOk(r) == IF r.tag = "Ok" THEN Some(r.val) ELSE None

(***************************************************************************)
(* Identifier codec and helpers                                            *)
(***************************************************************************)
\* init_id_word without the promotion of ids above SFF_MASK to extended
init_id_word_no_promotion(id, ext_id, rtr, err) ==
    IF WGt(id, EFF_MASK) THEN Err("IDTooLarge")
    ELSE LET a == IF ext_id THEN WOr(id, EFF_FLAG) ELSE id
             b == IF rtr THEN WOr(a, RTR_FLAG) ELSE a
             c == IF err THEN WOr(b, ERR_FLAG) ELSE b
         IN  Ok(c)

\* init_id_word masking an id above EFF_MASK instead of rejecting it
init_id_word_truncating(id, ext_id, rtr, err) ==
    LET m == WAnd(id, EFF_MASK)
        a == IF ext_id \/ WGt(m, SFF_MASK) THEN WOr(m, EFF_FLAG) ELSE m
        b == IF rtr THEN WOr(a, RTR_FLAG) ELSE a
        c == IF err THEN WOr(b, ERR_FLAG) ELSE b
    IN  Ok(c)

init_id_word(id, ext_id, rtr, err) ==
    IF WGt(id, EFF_MASK) THEN Err("IDTooLarge")
    ELSE LET a == IF ext_id \/ WGt(id, SFF_MASK) THEN WOr(id, EFF_FLAG) ELSE id
             b == IF rtr THEN WOr(a, RTR_FLAG) ELSE a
             c == IF err THEN WOr(b, ERR_FLAG) ELSE b
         IN  Ok(c)

\* fn is_extended(id: &Id)
id_is_extended(id) == id.kind = "Extended"

\* crate::util::hal_id_to_raw: the raw value of a StandardId or ExtendedId
hal_id_to_raw(id) == id.raw

\* [0; S]
Zeros(S) == [i \in 1..S |-> 0]

\* arr = [0; S]; arr[i] = data[i] for every byte of data
slice_to_array(S, data) == [i \in 1..S |-> IF i <= Len(data) THEN data[i] ELSE 0]

\* (&mut buf[..n]).copy_from_slice(data), n = data.len()
copy_from_slice(buf, data) ==
    [i \in 1..Len(buf) |-> IF i <= Len(data) THEN data[i] ELSE buf[i]]

(***************************************************************************)
(* Frame trait and accessors.  A frame f is the libc struct: can_frame is  *)
(* [can_id, can_dlc, data (8 bytes)], canfd_frame is                       *)
(* [can_id, len, flags, data (64 bytes)].                                  *)
(***************************************************************************)
id_word(f) == f.can_id

raw_id(f) == WAnd(id_word(f), EFF_MASK)

is_error(f) == WAnd(id_word(f), ERR_FLAG) # WZero

is_extended(f) == WAnd(f.can_id, EFF_FLAG) # WZero

\* CanFrame::is_remote_frame
is_remote_frame(f) == WAnd(f.can_id, RTR_FLAG) # WZero

\* CanFrame::dlc
dlc(f) == f.can_dlc

\* CanFrame::data
data(f) == SubSeq(f.data, 1, f.can_dlc)

\* CanFdFrame::dlc
fd_dlc(f) == f.len

\* CanFdFrame::data
fd_data(f) == SubSeq(f.data, 1, f.len)

is_brs(f) == BitAnd(f.flags, CANFD_BRS) = CANFD_BRS

is_esi(f) == BitAnd(f.flags, CANFD_ESI) = CANFD_ESI

(***************************************************************************)
(* Constructors and conversions, as functions of their arguments           *)
(***************************************************************************)
\* mem::zeroed::<can_frame>()
CanFrame_default == [can_id |-> WZero, can_dlc |-> 0, data |-> Zeros(CAN_DATA_LEN_MAX)]

\* mem::zeroed::<canfd_frame>()
CanFdFrame_default ==
    [can_id |-> WZero, len |-> 0, flags |-> 0, data |-> Zeros(CANFD_DATA_LEN_MAX)]

CanFrame_init(id, d, ext_id, rtr, err) ==
    LET n == Len(d) IN
    IF n > CAN_DATA_LEN_MAX THEN Err("TooMuchData")
    ELSE LET w == init_id_word(id, ext_id, rtr, err) IN
         IF w.tag # "Ok" THEN w
         ELSE Ok([can_id  |-> w.val,
                  can_dlc |-> n % 256,
                  data    |-> copy_from_slice(CanFrame_default.data, d)])

CanFrame_new(id, d) ==
    ResultOk(CanFrame_init(hal_id_to_raw(id), d, id_is_extended(id), FALSE, FALSE))

\* new_remote that does not ask for the RTR flag
CanFrame_new_remote_no_rtr(id, n) ==
    IF n > Len(Zeros(8)) THEN Panic
    ELSE ResultOk(CanFrame_init(hal_id_to_raw(id), SubSeq(Zeros(8), 1, n),
                                id_is_extended(id), FALSE, FALSE))

\* &data[0..dlc] of an 8-byte array panics when dlc > 8
CanFrame_new_remote(id, n) ==
    IF n > Len(Zeros(8)) THEN Panic
    ELSE ResultOk(CanFrame_init(hal_id_to_raw(id), SubSeq(Zeros(8), 1, n),
                                id_is_extended(id), TRUE, FALSE))

\* try_from rejecting a full 8-byte payload (>= for >)
CanFrame_try_from_off_by_one(frame) ==
    IF frame.len >= CAN_DATA_LEN_MAX THEN Err("TooMuchData")
    ELSE CanFrame_init(raw_id(frame), SubSeq(fd_data(frame), 1, frame.len),
                       is_extended(frame), FALSE, is_error(frame))

CanFrame_try_from(frame) ==
    IF frame.len > CAN_DATA_LEN_MAX THEN Err("TooMuchData")
    ELSE CanFrame_init(raw_id(frame), SubSeq(fd_data(frame), 1, frame.len),
                       is_extended(frame), FALSE, is_error(frame))

CanFdFrame_init(id, d, ext_id, err, brs, esi) ==
    LET n == Len(d) IN
    IF n > CAN_DATA_LEN_MAX THEN Err("TooMuchData")
    ELSE LET w  == init_id_word(id, ext_id, FALSE, err)
             f0 == CanFdFrame_default.flags
             f1 == IF brs THEN BitOr(f0, CANFD_BRS) ELSE f0
             f2 == IF esi THEN CANFD_ESI ELSE f1
         IN  IF w.tag # "Ok" THEN w
             ELSE Ok([can_id |-> w.val,
                      len    |-> n % 256,
                      flags  |-> f2,
                      data   |-> copy_from_slice(CanFdFrame_default.data, d)])

CanFdFrame_new(id, d) ==
    ResultOk(CanFdFrame_init(hal_id_to_raw(id), d, id_is_extended(id), FALSE, FALSE, FALSE))

CanFdFrame_new_remote(id, n) == None

set_brs(f, on) ==
    [f EXCEPT !.flags = IF on THEN BitOr(@, CANFD_BRS) ELSE BitAnd(@, BitNot8(CANFD_BRS))]

\* set_esi assigning the flag byte instead of OR-ing into it
set_esi_assign(f, on) ==
    [f EXCEPT !.flags = IF on THEN CANFD_ESI ELSE BitAnd(@, BitNot8(CANFD_ESI))]

set_esi(f, on) ==
    [f EXCEPT !.flags = IF on THEN BitOr(@, CANFD_ESI) ELSE BitAnd(@, BitNot8(CANFD_ESI))]

\* widening that loses the error flag of the id word
CanFdFrame_from_drop_err(frame) ==
    [CanFdFrame_default EXCEPT
        !.can_id = WAnd(frame.can_id, WOr(EFF_FLAG, WOr(RTR_FLAG, EFF_MASK))),
        !.len    = frame.can_dlc,
        !.data   = slice_to_array(CANFD_DATA_LEN_MAX, data(frame))]

\* impl From<CanFrame> for CanFdFrame
CanFdFrame_from(frame) ==
    [CanFdFrame_default EXCEPT
        !.can_id = frame.can_id,
        !.len    = frame.can_dlc,
        !.data   = slice_to_array(CANFD_DATA_LEN_MAX, data(frame))]

(***************************************************************************)
(* Inputs                                                                  *)
(***************************************************************************)
\* 0, 0x7FF, 0x800, 0x1FFFFFFF, 0x20000000, 0xFFFFFFFF
Ids == {W(0, 0), W(0, 2047), W(0, 2048), W(8191, 65535), W(8192, 0), W(65535, 65535)}

\* embedded_hal::can::Id: StandardId holds at most 0x7FF, ExtendedId at most 0x1FFFFFFF
HalIds ==
    {[kind |-> "Standard", raw |-> r] : r \in {W(0, 0), W(0, 7), W(0, 2047)}}
    \cup {[kind |-> "Extended", raw |-> r] : r \in {W(0, 0), W(0, 2048), W(8191, 65535)}}

\* the payload of n bytes 1, 2, ..., n
Payload(n) == [i \in 1..n |-> i]

Payloads == {Payload(n) : n \in 0..MaxPayload}

\* id words of the FD frames the kernel delivers: the EFF flag is set on every
\* id above SFF_MASK, and there is no remote FD frame
RawIdWords ==
    {WOr(WOr(id, IF eff THEN EFF_FLAG ELSE WZero), IF err THEN ERR_FLAG ELSE WZero) :
        <<id, eff, err>> \in
            {t \in Ids \X BOOLEAN \X BOOLEAN : ~WGt(t[1], EFF_MASK) /\ (t[2] \/ ~WGt(t[1], SFF_MASK))}}

(***************************************************************************)
(* State                                                                   *)
(***************************************************************************)
VARIABLES
    cframe,     \* the CanFrame that was constructed, or NoFrame
    fdframe,    \* the CanFdFrame that was constructed, received or widened, or NoFrame
    call,       \* the last call and its arguments
    ret,        \* what the last call returned
    cOrigin,    \* the call that made cframe
    fdOrigin,   \* the call that made fdframe
    lastBrs,    \* the brs flag as constructed, then the argument of the last set_brs
    lastEsi     \* the esi flag as constructed, then the argument of the last set_esi

vars == <<cframe, fdframe, call, ret, cOrigin, fdOrigin, lastBrs, lastEsi>>

Unit == [tag |-> "Unit", val |-> NoFrame, err |-> ""]

NoCall ==
    [op |-> "start", id |-> WZero, hid |-> [kind |-> "Standard", raw |-> WZero],
     data |-> <<>>, ext |-> FALSE, rtr |-> FALSE, err |-> FALSE, brs |-> FALSE,
     esi |-> FALSE, n |-> 0, on |-> FALSE]

Init ==
    /\ cframe = NoFrame
    /\ fdframe = NoFrame
    /\ call = NoCall
    /\ ret = Unit
    /\ cOrigin = "none"
    /\ fdOrigin = "none"
    /\ lastBrs = FALSE
    /\ lastEsi = FALSE

\* no frame has been built yet
Fresh == call.op = "start"

\* a constructor of CanFrame returned r
BuiltClassic(r, c) ==
    /\ ret' = r
    /\ call' = c
    /\ cframe' = r.val
    /\ cOrigin' = IF r.val = NoFrame THEN "none" ELSE c.op
    /\ UNCHANGED <<fdframe, fdOrigin, lastBrs, lastEsi>>

\* a constructor of CanFdFrame returned r
BuiltFd(r, c) ==
    /\ ret' = r
    /\ call' = c
    /\ fdframe' = r.val
    /\ fdOrigin' = IF r.val = NoFrame THEN "none" ELSE c.op
    /\ lastBrs' = IF r.val = NoFrame THEN FALSE ELSE is_brs(r.val)
    /\ lastEsi' = IF r.val = NoFrame THEN FALSE ELSE is_esi(r.val)
    /\ UNCHANGED <<cframe, cOrigin>>

(***************************************************************************)
(* Operations                                                              *)
(***************************************************************************)
CanFrameInit ==
    /\ Fresh
    /\ \E id \in Ids, d \in Payloads, ext_id \in BOOLEAN, rtr \in BOOLEAN, err \in BOOLEAN :
          BuiltClassic(CanFrame_init(id, d, ext_id, rtr, err),
                       [NoCall EXCEPT !.op = "CanFrame::init", !.id = id, !.data = d,
                                      !.ext = ext_id, !.rtr = rtr, !.err = err])

CanFrameNew ==
    /\ Fresh
    /\ \E id \in HalIds, d \in Payloads :
          BuiltClassic(CanFrame_new(id, d),
                       [NoCall EXCEPT !.op = "CanFrame::new", !.hid = id, !.data = d])

CanFrameNewRemote ==
    /\ Fresh
    /\ \E id \in HalIds, n \in 0..MaxDlc :
          BuiltClassic(CanFrame_new_remote(id, n),
                       [NoCall EXCEPT !.op = "CanFrame::new_remote", !.hid = id, !.n = n])

CanFrameDefault ==
    /\ Fresh
    /\ BuiltClassic(Ok(CanFrame_default), [NoCall EXCEPT !.op = "CanFrame::default"])

CanFdFrameInit ==
    /\ Fresh
    /\ \E id \in Ids, d \in Payloads, ext_id \in BOOLEAN, err \in BOOLEAN,
          brs \in BOOLEAN, esi \in BOOLEAN :
          BuiltFd(CanFdFrame_init(id, d, ext_id, err, brs, esi),
                  [NoCall EXCEPT !.op = "CanFdFrame::init", !.id = id, !.data = d,
                                 !.ext = ext_id, !.err = err, !.brs = brs, !.esi = esi])

CanFdFrameNew ==
    /\ Fresh
    /\ \E id \in HalIds, d \in Payloads :
          BuiltFd(CanFdFrame_new(id, d),
                  [NoCall EXCEPT !.op = "CanFdFrame::new", !.hid = id, !.data = d])

CanFdFrameNewRemote ==
    /\ Fresh
    /\ \E id \in HalIds, n \in 0..MaxDlc :
          BuiltFd(CanFdFrame_new_remote(id, n),
                  [NoCall EXCEPT !.op = "CanFdFrame::new_remote", !.hid = id, !.n = n])

CanFdFrameDefault ==
    /\ Fresh
    /\ BuiltFd(Ok(CanFdFrame_default), [NoCall EXCEPT !.op = "CanFdFrame::default"])

\* the transport fills a default frame through as_mut_ptr() with a canfd_frame
\* read from the socket
AsMutPtrFill ==
    /\ call.op = "CanFdFrame::default"
    /\ \E w \in RawIdWords, n \in 0..CANFD_DATA_LEN_MAX, fl \in 0..(CANFD_BRS + CANFD_ESI) :
          BuiltFd(Ok([can_id |-> w, len |-> n, flags |-> fl,
                      data |-> slice_to_array(CANFD_DATA_LEN_MAX, Payload(n))]),
                  [NoCall EXCEPT !.op = "as_mut_ptr", !.n = n])

\* CanFdFrame::from(cframe)
CanFdFrameFrom ==
    /\ cframe # NoFrame
    /\ fdframe = NoFrame
    /\ BuiltFd(Ok(CanFdFrame_from(cframe)), [NoCall EXCEPT !.op = "CanFdFrame::from"])

\* CanFrame::try_from(fdframe); the frame it returns is ret.val
CanFrameTryFrom ==
    /\ fdframe # NoFrame
    /\ ret' = CanFrame_try_from(fdframe)
    /\ call' = [NoCall EXCEPT !.op = "CanFrame::try_from"]
    /\ UNCHANGED <<cframe, fdframe, cOrigin, fdOrigin, lastBrs, lastEsi>>

SetBrs ==
    /\ fdframe # NoFrame
    /\ \E on \in BOOLEAN :
          /\ fdframe' = set_brs(fdframe, on)
          /\ lastBrs' = on
          /\ call' = [NoCall EXCEPT !.op = "set_brs", !.on = on]
    /\ ret' = Unit
    /\ UNCHANGED <<cframe, cOrigin, fdOrigin, lastEsi>>

SetEsi ==
    /\ fdframe # NoFrame
    /\ \E on \in BOOLEAN :
          /\ fdframe' = set_esi(fdframe, on)
          /\ lastEsi' = on
          /\ call' = [NoCall EXCEPT !.op = "set_esi", !.on = on]
    /\ ret' = Unit
    /\ UNCHANGED <<cframe, cOrigin, fdOrigin, lastBrs>>

Next ==
    \/ CanFrameInit
    \/ CanFrameNew
    \/ CanFrameNewRemote
    \/ CanFrameDefault
    \/ CanFdFrameInit
    \/ CanFdFrameNew
    \/ CanFdFrameNewRemote
    \/ CanFdFrameDefault
    \/ AsMutPtrFill
    \/ CanFdFrameFrom
    \/ CanFrameTryFrom
    \/ SetBrs
    \/ SetEsi

Spec == Init /\ [][Next]_vars

(***************************************************************************)
(* Properties                                                              *)
(***************************************************************************)
FdInitCalled == call.op = "CanFdFrame::init"

InitCalled == call.op \in {"CanFrame::init", "CanFdFrame::init"}

TryFromCalled == call.op = "CanFrame::try_from"

NewRemoteCalled == call.op = "CanFrame::new_remote"

\* C1: CanFdFrame::init with a valid id fails with TooMuchData if and only if
\* data.len() > 64; every payload of 9..64 bytes is accepted and gives a frame
\* of that length holding that payload.
C1_FdInitRejectsOnlyAbove64 ==
    (FdInitCalled /\ ~WGt(call.id, EFF_MASK)) =>
        /\ (ret = Err("TooMuchData")) <=> (Len(call.data) > CANFD_DATA_LEN_MAX)
        /\ (Len(call.data) \in (CAN_DATA_LEN_MAX + 1)..CANFD_DATA_LEN_MAX) =>
              /\ ret.tag = "Ok"
              /\ fd_dlc(ret.val) = Len(call.data)
              /\ fd_data(ret.val) = call.data

\* C2: after every successful CanFdFrame::init, is_brs() is the brs argument
\* and is_esi() is the esi argument; with both true the flag byte is 0x03.
C2_FdInitSetsBothFlags ==
    (FdInitCalled /\ ret.tag = "Ok") =>
        /\ is_brs(ret.val) = call.brs
        /\ is_esi(ret.val) = call.esi
        /\ (call.brs /\ call.esi) => ret.val.flags = BitOr(CANFD_BRS, CANFD_ESI)

\* C3: the id word of an FD frame made by init, new, default or by widening a
\* classic frame (a remote frame included), and then changed by set_brs and
\* set_esi, never has the RTR bit set.
C3_FdNeverRemote ==
    (fdframe # NoFrame /\ fdOrigin # "as_mut_ptr") =>
        WAnd(id_word(fdframe), RTR_FLAG) = WZero

C5_ExtendedIffAskedOrLarge ==
    (InitCalled /\ ret.tag = "Ok") =>
        /\ is_extended(ret.val) <=> (call.ext \/ WGt(call.id, SFF_MASK))
        /\ raw_id(ret.val) = call.id

C5_Witness ==
    /\ FdInitCalled
    /\ ret.tag = "Ok"
    /\ ~call.ext
    /\ call.id = W(0, 2048)
    /\ is_extended(ret.val)

\* C6 as stated: for every id > 0x1FFFFFFF, CanFrame::init and CanFdFrame::init
\* fail with IDTooLarge, whatever the payload and the flags.
C6_AlwaysIDTooLarge ==
    (InitCalled /\ WGt(call.id, EFF_MASK)) => ret = Err("IDTooLarge")

\* C6 amended: for every id > 0x1FFFFFFF both constructors fail and return no
\* frame; the error is IDTooLarge when the payload passes the length check they
\* make first (at most 8 bytes), and TooMuchData when it does not.
C6_LargeIdAlwaysRejected ==
    (InitCalled /\ WGt(call.id, EFF_MASK)) =>
        /\ ret.tag = "Err"
        /\ cframe = NoFrame /\ fdframe = NoFrame
        /\ ret.err = IF Len(call.data) > CAN_DATA_LEN_MAX THEN "TooMuchData" ELSE "IDTooLarge"

C6_Witness ==
    /\ FdInitCalled
    /\ call.id = W(8192, 0)
    /\ Len(call.data) = CAN_DATA_LEN_MAX
    /\ ret = Err("IDTooLarge")

\* C7, the flags in every state: is_brs() is the argument of the last set_brs,
\* or the flag as constructed, and the same for is_esi() and set_esi.
FlagsAreLastSet ==
    fdframe # NoFrame => (is_brs(fdframe) = lastBrs /\ is_esi(fdframe) = lastEsi)

\* C7, one setter call: it sets its own flag to its argument and leaves the
\* other flag, the id word, the length and the payload as they were.
SetterStep ==
    (call'.op \in {"set_brs", "set_esi"}) =>
        /\ id_word(fdframe') = id_word(fdframe)
        /\ fd_dlc(fdframe') = fd_dlc(fdframe)
        /\ fdframe'.data = fdframe.data
        /\ (call'.op = "set_brs") =>
              (is_brs(fdframe') = call'.on /\ is_esi(fdframe') = is_esi(fdframe))
        /\ (call'.op = "set_esi") =>
              (is_esi(fdframe') = call'.on /\ is_brs(fdframe') = is_brs(fdframe))

\* C7: after any sequence of set_brs and set_esi calls each flag is what its
\* own setter last made it (or what construction made it); no setter changes
\* the other flag, the id word, the length or the payload.
C7_SettersIndependent == [](FlagsAreLastSet) /\ [][SetterStep]_vars

C7_Witness ==
    /\ call.op = "set_esi"
    /\ call.on
    /\ lastBrs
    /\ fdOrigin = "CanFdFrame::init"
    /\ fdframe.flags = BitOr(CANFD_BRS, CANFD_ESI)

\* C8: CanFrame::try_from(fd) fails with TooMuchData exactly when fd's length
\* is above 8; otherwise it succeeds with the same raw id, extended flag, error
\* flag, length and payload, and with the remote flag false.
C8_NarrowingContract ==
    TryFromCalled =>
        /\ (ret = Err("TooMuchData")) <=> (fd_dlc(fdframe) > CAN_DATA_LEN_MAX)
        /\ (fd_dlc(fdframe) <= CAN_DATA_LEN_MAX) =>
              /\ ret.tag = "Ok"
              /\ raw_id(ret.val) = raw_id(fdframe)
              /\ is_extended(ret.val) = is_extended(fdframe)
              /\ is_error(ret.val) = is_error(fdframe)
              /\ ~is_remote_frame(ret.val)
              /\ dlc(ret.val) = fd_dlc(fdframe)
              /\ data(ret.val) = fd_data(fdframe)

C8_Witness ==
    /\ TryFromCalled
    /\ fd_dlc(fdframe) = CAN_DATA_LEN_MAX + 1
    /\ is_extended(fdframe)
    /\ ret = Err("TooMuchData")

\* C9: CanFrame::new_remote(id, n) with n in 0..8 returns a remote frame of
\* length n whose payload is n zero bytes, with the error flag clear and the
\* id and extended flag of the identifier given.
C9_NewRemote ==
    (NewRemoteCalled /\ call.n <= CAN_DATA_LEN_MAX) =>
        /\ ret.tag = "Some"
        /\ is_remote_frame(ret.val)
        /\ dlc(ret.val) = call.n
        /\ data(ret.val) = Zeros(call.n)
        /\ ~is_error(ret.val)
        /\ raw_id(ret.val) = call.hid.raw
        /\ is_extended(ret.val) = (call.hid.kind = "Extended")

C9_Witness ==
    /\ NewRemoteCalled
    /\ call.n = 3
    /\ call.hid = [kind |-> "Standard", raw |-> W(0, 7)]
    /\ ret.tag = "Some"
    /\ is_remote_frame(ret.val)
    /\ data(ret.val) = <<0, 0, 0>>

\* C10: CanFrame::new_remote(id, n) with n > 8 completes and returns no frame,
\* as ordinary construction does for too much data; it never panics.
C10_NewRemoteTooLongReturnsNone ==
    (NewRemoteCalled /\ call.n > CAN_DATA_LEN_MAX) => ret = None

====
